---- MODULE Spec2Model ----
(***************************************************************************)
(* A model of four pieces of docxml:                                       *)
(*   - bumpInvalidChildrenToAncestry, the in-place repair of invalid       *)
(*     nesting in an AST (specification SpecBump);                         *)
(*   - ensureFlatResolvedArray / recursiveFlattenArray, the flattening of  *)
(*     nested, possibly asynchronous JSX children (specification SpecFlat);*)
(*   - Paragraph and TextAddition toNode / fromNode (SpecRound);           *)
(*   - Settings.toNode / Settings.fromArchive (SpecSettings).              *)
(***************************************************************************)
EXTENDS Integers, Sequences, FiniteSets, TLC

VARIABLES
    mem,        \* the heap of AST nodes: components, props and children arrays
    orig,       \* the heap as it was handed to bumpInvalidChildrenToAncestry
    first,      \* the heap as the first call left it
    phase,      \* where the caller of bumpInvalidChildrenToAncestry stands
    children,   \* the argument of ensureFlatResolvedArray, as a tree of items
    settled,    \* the promises among the items that have resolved, in the order they did
    calls,      \* the calls of recursiveFlattenArray, one per item: position and value
    out,        \* what ensureFlatResolvedArray resolved to, once it has
    component,  \* a Paragraph or TextAddition instance: type, props, children
    node,       \* the XML element its toNode made
    decoded,    \* the instance fromNode made of that element
    step,       \* where the encode / decode round trip stands
    archive,    \* the files of the archive, by location
    location,   \* the location of the settings part
    written,    \* the Settings instance that wrote the part, when one did
    relationships, \* the local variable of Settings.fromArchive
    warnings,   \* how many warnings console.error has printed
    result,     \* the Settings that Settings.fromArchive resolved to
    pc          \* where Settings.fromArchive stands

bumpVars == <<mem, orig, first, phase>>

flatVars == <<children, settled, calls, out>>

roundVars == <<component, node, decoded, step>>

settingsVars == <<archive, location, written, relationships, warnings, result, pc>>

vars == <<bumpVars, flatVars, roundVars, settingsVars>>

(***************************************************************************)
(* Bounds                                                                  *)
(***************************************************************************)
MaxNodes == 5

MaxItems == 4

MaxChildren == 2

(***************************************************************************)
(* Components.  Paragraph and TextAddition are the two components whose    *)
(* static children / mixed fields are in the source.  Text is the mixed-    *)
(* content component Paragraph names; Container stands for a block-level   *)
(* component that accepts paragraphs and blocks of its own type.  The      *)
(* trees handed to bumpInvalidChildrenToAncestry are built from Container, *)
(* Paragraph and Text nodes and raw strings.                               *)
(***************************************************************************)
Paragraph ==
    [type |-> "Paragraph", children |-> <<"Text", "TextAddition", "TextDeletion">>, mixed |-> FALSE]

TextAddition ==
    [type |-> "TextAddition", children |-> <<"Text", "TextAddition", "TextDeletion">>, mixed |-> FALSE]

Container ==
    [type |-> "Container", children |-> <<"Container", "Paragraph">>, mixed |-> FALSE]

Text ==
    [type |-> "Text", children |-> <<>>, mixed |-> TRUE]

Components == {Container, Paragraph, Text}

(***************************************************************************)
(* The heap.  A reference is a node ([k |-> "node", v |-> id]) or a raw    *)
(* string ([k |-> "text", v |-> n], the n-th string of the input).         *)
(* mem.kids[id] is the children array of node id; mem.kids[0] is the local *)
(* array documentElements.  mem.comp[id] and mem.props[id] are the node's  *)
(* component and props.                                                    *)
(***************************************************************************)
NodeRef(id) == [k |-> "node", v |-> id]

\* the node handed to bumpInvalidChildrenToAncestry
RootId == 1

TextRef(n) == [k |-> "text", v |-> n]

Includes(list, x) == \E j \in 1..Len(list) : list[j] = x

\* Array.prototype.indexOf, zero-based, -1 when absent
IndexOf(arr, x) ==
    IF \E j \in 1..Len(arr) : arr[j] = x
    THEN (CHOOSE j \in 1..Len(arr) : arr[j] = x /\ \A h \in 1..(j - 1) : arr[h] # x) - 1
    ELSE -1

IsValidChildIgnoringMixed(m, nd, child) ==
    \/ child.k = "text"
    \/ child.k = "node" /\ Includes(m.comp[nd].children, m.comp[child.v].type)

\* the test of lines 163-166: is child a valid child of node nd
IsValidChild(m, nd, child) ==
    \/ child.k = "text" /\ m.comp[nd].mixed
    \/ child.k = "node" /\ Includes(m.comp[nd].children, m.comp[child.v].type)

SpliceInSwapped(arr, at, a, b) ==
    SubSeq(arr, 1, at) \o <<b, a>> \o SubSeq(arr, at + 1, Len(arr))

\* nodes.splice(at, 0, a, b) on a zero-based position
SpliceIn(arr, at, a, b) ==
    SubSeq(arr, 1, at) \o <<a, b>> \o SubSeq(arr, at + 1, Len(arr))

SpliceIndexAtStart(m, a, nd) == 0

\* the position the bumped child and the clone are spliced in at
SpliceIndex(m, a, nd) == IndexOf(m.kids[a], NodeRef(nd)) + 1

TrailingChildrenOffByOne(array, i) == SubSeq(array, i + 2, Len(array))

\* line 172, after the splice of line 170 took child i out: the children that
\* followed child i (one-based)
TrailingChildren(array, i) == SubSeq(array, i + 1, Len(array))

\* the identity of the object a spread expression allocates
NewId(m) == (CHOOSE x \in DOMAIN m.comp : \A z \in DOMAIN m.comp : z <= x) + 1

\* lines 170-173: child i of nd and the clone of nd holding the children after
\* it move into the array a, right after nd
BumpChild(m, a, nd, i) ==
    LET child == m.kids[nd][i]
        rest  == TrailingChildren(m.kids[nd], i)
        kept  == SubSeq(m.kids[nd], 1, i - 1)
        at    == SpliceIndex(m, a, nd)
        clone == NewId(m)
        kidsA == [j \in (DOMAIN m.kids) \cup {clone} |->
                    IF j = clone THEN rest
                    ELSE IF j = nd THEN kept
                    ELSE m.kids[j]]
    IN  [comp  |-> [j \in (DOMAIN m.comp) \cup {clone} |->
                        IF j = clone THEN m.comp[nd] ELSE m.comp[j]],
         props |-> [j \in (DOMAIN m.props) \cup {clone} |->
                        IF j = clone THEN m.props[nd] ELSE m.props[j]],
         kids  |-> [kidsA EXCEPT ![a] = SpliceIn(kidsA[a], at, child, NodeRef(clone))]]

RECURSIVE CheckLoop(_, _, _, _)
\* the loop of lines 161-175 from index i (one-based) on
CheckLoop(m, a, nd, i) ==
    IF i > Len(m.kids[nd]) THEN m
    ELSE IF IsValidChild(m, nd, m.kids[nd][i]) THEN CheckLoop(m, a, nd, i + 1)
    ELSE CheckLoop(BumpChild(m, a, nd, i), a, nd, i + 1)

RECURSIVE WalkLoop(_, _, _)
\* the loop of lines 154-176 over the array a from index y (one-based) on
WalkLoop(m, a, y) ==
    IF y > Len(m.kids[a]) THEN m
    ELSE LET r == m.kids[a][y] IN
         IF r.k = "text" THEN WalkLoop(m, a, y + 1)
         ELSE WalkLoop(CheckLoop(WalkLoop(m, r.v, 1), a, r.v, 1), a, y + 1)

walk(m, a) == WalkLoop(m, a, 1)

NeverThrow(documentElements) == Len(documentElements) = 0

\* line 179
MustThrow(documentElements) == Len(documentElements) # 1

\* bumpInvalidChildrenToAncestry(root) on heap m: the heap it leaves, with
\* documentElements in kids[0]
bumpInvalidChildrenToAncestry(m, root) ==
    walk([m EXCEPT !.kids[0] = <<NodeRef(root)>>], 0)

(***************************************************************************)
(* The input trees: n nodes and strings numbered in breadth-first order,   *)
(* so that every ordered tree of at most MaxNodes items is one of them.    *)
(***************************************************************************)
\* what an item of the input is: a node of some component, or a raw string
StringKind == [type |-> "#string", children |-> <<>>, mixed |-> FALSE]

Kinds == Components \cup {StringKind}

\* parent of each item 2..n (0 for the root): breadth-first numbering makes
\* the parents non-decreasing
RECURSIVE Shapes(_)
Shapes(n) ==
    IF n = 1 THEN {<<0>>}
    ELSE { Append(s, p) : <<s, p>> \in
             { sp \in Shapes(n - 1) \X (1..(n - 1)) : sp[2] >= sp[1][n - 1] } }

\* the children of item i, in order
ChildrenOf(n, par, kind, i) ==
    LET ids == SelectSeq([j \in 1..n |-> j], LAMBDA j : par[j] = i)
    IN [x \in 1..Len(ids) |->
            IF kind[ids[x]] = StringKind THEN TextRef(ids[x]) ELSE NodeRef(ids[x])]

MakeHeap(n, par, kind) ==
    LET ns == {i \in 1..n : kind[i] # StringKind} IN
    [comp  |-> [i \in ns |-> kind[i]],
     props |-> [i \in ns |-> i],
     kids  |-> [i \in ns \cup {0} |-> IF i = 0 THEN <<>> ELSE ChildrenOf(n, par, kind, i)]]

\* a tree: the root is a node, and only nodes have children
IsInput(n, par, kind) ==
    /\ kind[1] # StringKind
    /\ \A i \in 2..n : kind[par[i]] # StringKind

(***************************************************************************)
(* The caller: one call on an input tree, then a second call on the tree   *)
(* the first one returned.                                                 *)
(***************************************************************************)
InitBump ==
    /\ \E n \in 1..MaxNodes : \E par \in Shapes(n) : \E kind \in [1..n -> Kinds] :
            /\ IsInput(n, par, kind)
            /\ mem = MakeHeap(n, par, kind)
    /\ orig = mem
    /\ first = mem
    /\ phase = "input"
    /\ children = <<>> /\ settled = <<>> /\ calls = <<>> /\ out = <<>>
    /\ component = <<>> /\ node = <<>> /\ decoded = <<>> /\ step = "none"
    /\ archive = <<>> /\ location = <<>> /\ written = <<>> /\ relationships = <<>>
    /\ warnings = 0 /\ result = <<>> /\ pc = "none"

\* the first call
Repair ==
    /\ phase = "input"
    /\ \E m \in {bumpInvalidChildrenToAncestry(mem, RootId)} :
        /\ mem' = m
        /\ first' = m
        /\ phase' = IF MustThrow(m.kids[0]) THEN "thrown" ELSE "returned"
    /\ UNCHANGED <<orig, flatVars, roundVars, settingsVars>>

\* the second call, on the node the first call returned
RepairAgain ==
    /\ phase = "returned"
    /\ \E m \in {bumpInvalidChildrenToAncestry(mem, mem.kids[0][1].v)} :
        /\ mem' = m
        /\ phase' = IF MustThrow(m.kids[0]) THEN "thrown2" ELSE "returned2"
    /\ UNCHANGED <<orig, first, flatVars, roundVars, settingsVars>>

NextBump == Repair \/ RepairAgain

SpecBump == InitBump /\ [][NextBump]_vars

(***************************************************************************)
(* What the claims about bumpInvalidChildrenToAncestry speak of            *)
(***************************************************************************)
\* child c may stand under a node of component comp
Accepted(m, comp, c) ==
    IF c.k = "text" THEN comp.mixed
    ELSE \E j \in 1..Len(comp.children) : comp.children[j] = m.comp[c.v].type

RECURSIVE Reach(_, _)
\* the nodes of the subtree of node id
Reach(m, id) ==
    {id} \cup UNION { Reach(m, m.kids[id][j].v) :
                        j \in {h \in 1..Len(m.kids[id]) : m.kids[id][h].k = "node"} }

RECURSIVE Leaves(_, _)
\* the strings and childless nodes below (and including) r, left to right
Leaves(m, r) ==
    IF r.k = "text" THEN <<r>>
    ELSE IF m.kids[r.v] = <<>> THEN <<r>>
    ELSE LET RECURSIVE Cat(_)
             Cat(j) == IF j > Len(m.kids[r.v]) THEN <<>>
                       ELSE Leaves(m, m.kids[r.v][j]) \o Cat(j + 1)
         IN Cat(1)

RECURSIVE ToTree(_, _)
\* the subtree of r as a value: types, props and children in order
ToTree(m, r) ==
    IF r.k = "text" THEN [text |-> r.v]
    ELSE [type     |-> m.comp[r.v].type,
          props    |-> m.props[r.v],
          children |-> [j \in 1..Len(m.kids[r.v]) |-> ToTree(m, m.kids[r.v][j])]]

SubtreeValid(m, id) ==
    \A x \in Reach(m, id) : \A j \in 1..Len(m.kids[x]) : Accepted(m, m.comp[x], m.kids[x][j])

Range(seq) == {seq[j] : j \in 1..Len(seq)}

\* C1: when the first call returns, every node reachable from the returned root
\* has only valid children
C1_StructuralClosure ==
    phase = "returned" => SubtreeValid(mem, mem.kids[0][1].v)

\* a returned repair of a tree whose violation sat three levels below the root
\* and was bumped twice
C1_Witness ==
    /\ phase = "returned"
    /\ Cardinality(DOMAIN mem.comp) >= Cardinality(DOMAIN orig.comp) + 2
    /\ \E a \in DOMAIN orig.comp, b \in DOMAIN orig.comp :
          /\ NodeRef(a) \in Range(orig.kids[RootId])
          /\ NodeRef(b) \in Range(orig.kids[a])
          /\ \E j \in 1..Len(orig.kids[b]) : ~Accepted(orig, orig.comp[b], orig.kids[b][j])

\* C2 as stated: when the call returns, the leaves of the returned tree (strings
\* and childless nodes) are, left to right, those of the input tree
C2_LeafSequenceUnchanged ==
    phase = "returned" => Leaves(mem, NodeRef(RootId)) = Leaves(orig, NodeRef(RootId))

\* C2 amended: the strings and the nodes that were childless in the input keep
\* their left-to-right sequence; the returned tree may hold further childless
\* nodes (an emptied parent, an empty clone)
C2_InputLeavesPreserved ==
    phase = "returned" =>
        LET before == Leaves(orig, NodeRef(RootId))
        IN SelectSeq(Leaves(mem, NodeRef(RootId)), LAMBDA r : r \in Range(before)) = before

\* a returned repair that moved at least two input leaves and left a node empty
C2_Witness ==
    /\ phase = "returned"
    /\ mem # orig
    /\ Len(Leaves(orig, NodeRef(RootId))) >= 2
    /\ Len(Leaves(mem, NodeRef(RootId))) > Len(Leaves(orig, NodeRef(RootId)))

\* C3: a second call on the returned tree returns too and leaves the tree as
\* the first call left it, with no new node
C3_Idempotent ==
    phase \in {"returned2", "thrown2"} =>
        /\ phase = "returned2"
        /\ ToTree(mem, mem.kids[0][1]) = ToTree(first, first.kids[0][1])
        /\ DOMAIN mem.comp = DOMAIN first.comp

\* a second call on a tree the first call had to change
C3_Witness ==
    /\ phase = "returned2"
    /\ ToTree(first, NodeRef(RootId)) # ToTree(orig, NodeRef(RootId))

\* C4: the call returns the root it was given, alone at the top level and
\* with every item of the input below it, or it throws; it throws exactly when
\* the pass leaves more than one item at the top level
C4_SingleRootOrThrow ==
    phase \in {"returned", "thrown"} =>
        /\ (phase = "thrown") <=> (Len(mem.kids[0]) > 1)
        /\ mem.kids[0][1] = NodeRef(RootId)
        /\ phase = "returned" =>
              /\ mem.kids[0] = <<NodeRef(RootId)>>
              /\ DOMAIN orig.comp \subseteq Reach(mem, RootId)
              /\ \A x \in DOMAIN orig.comp : \A j \in 1..Len(orig.kids[x]) :
                    orig.kids[x][j].k = "text" =>
                        \E z \in Reach(mem, RootId) : orig.kids[x][j] \in Range(mem.kids[z])

\* a throw with the root, a child it does not accept and the root's clone at the
\* top level
C4_Witness ==
    /\ phase = "thrown"
    /\ Len(mem.kids[0]) = 3
    /\ mem.kids[0][2] \in Range(orig.kids[RootId])
    /\ mem.kids[0][3].k = "node"
    /\ mem.kids[0][3].v \notin DOMAIN orig.comp

\* in the input, node n is child number p of q, q accepts n, and child number k
\* of n is the only child n does not accept, while q accepts it
SplitCase(q, p, k) ==
    /\ orig.kids[q][p].k = "node"
    /\ LET n == orig.kids[q][p].v IN
        /\ Accepted(orig, orig.comp[q], NodeRef(n))
        /\ k \in 1..Len(orig.kids[n])
        /\ \A j \in 1..Len(orig.kids[n]) :
              Accepted(orig, orig.comp[n], orig.kids[n][j]) <=> (j # k)
        /\ Accepted(orig, orig.comp[q], orig.kids[n][k])

SplitCases ==
    { c \in (DOMAIN orig.comp) \X (1..MaxNodes) \X (1..MaxNodes) :
        /\ c[2] <= Len(orig.kids[c[1]])
        /\ SplitCase(c[1], c[2], c[3]) }

\* in the repaired tree, the children of h hold, side by side: n with its
\* children before number k, the k-th child, and a new node with n's component
\* and props holding the children after number k
SplitIn(h, n, k) ==
    \E at \in 1..(Len(mem.kids[h]) - 2) :
        /\ mem.kids[h][at] = NodeRef(n)
        /\ mem.kids[n] = SubSeq(orig.kids[n], 1, k - 1)
        /\ mem.kids[h][at + 1] = orig.kids[n][k]
        /\ LET x == mem.kids[h][at + 2] IN
            /\ x.k = "node"
            /\ x.v \notin DOMAIN orig.comp
            /\ mem.comp[x.v] = orig.comp[n]
            /\ mem.props[x.v] = orig.props[n]
            /\ mem.kids[x.v] = SubSeq(orig.kids[n], k + 1, Len(orig.kids[n]))

\* C8 as stated: whenever n under q has exactly one child that n rejects and q
\* accepts, the returned tree has n, that child and n's clone side by side in
\* q's children, with n's other children shared out between n and the clone
C8_SplitShapeInParent ==
    phase = "returned" =>
        \A c \in SplitCases : SplitIn(c[1], orig.kids[c[1]][c[2]].v, c[3])

\* C8 amended: the same, provided the subtrees of n's children hold no
\* violation of their own; the three siblings then stand in q's children or,
\* when an earlier child of q was bumped out of q, in those of the clone of q
\* that received q's trailing children
C8_SplitShape ==
    phase = "returned" =>
        \A c \in SplitCases :
            LET n == orig.kids[c[1]][c[2]].v IN
            (\A j \in 1..Len(orig.kids[n]) :
                orig.kids[n][j].k = "node" => SubtreeValid(orig, orig.kids[n][j].v))
            => \E h \in Reach(mem, RootId) :
                    /\ mem.comp[h] = orig.comp[c[1]]
                    /\ mem.props[h] = orig.props[c[1]]
                    /\ SplitIn(h, n, c[3])

\* a returned repair of a node with three children whose middle child was the
\* one bumped
C8_Witness ==
    /\ phase = "returned"
    /\ \E c \in SplitCases :
          LET n == orig.kids[c[1]][c[2]].v IN
          /\ Len(orig.kids[n]) = 3
          /\ c[3] = 2
          /\ \A j \in 1..3 : orig.kids[n][j].k = "node" => SubtreeValid(orig, orig.kids[n][j].v)
          /\ SplitIn(c[1], n, 2)

(***************************************************************************)
(* ensureFlatResolvedArray.  The argument is a tree of items numbered in   *)
(* breadth-first order, item 1 being the argument itself: kind[i] is what  *)
(* item i is once awaited (an array, a node, undefined, null or false),      *)
(* async[i] whether item i is a promise of it.  The values carry the item  *)
(* number, which tells apart two equal primitives.                         *)
(***************************************************************************)
LeafKinds == {"node", "undefined", "null", "false"}

ItemKinds == LeafKinds \cup {"array"}

\* the item as it is declared: the promise, when it is one
ItemOf(c, i) == [kind |-> IF c.async[i] THEN "promise" ELSE c.kind[i], id |-> i]

\* await item
Await(c, item) == [kind |-> c.kind[item.id], id |-> item.id]

\* the elements of array i, in order
Elements(c, i) == SelectSeq([j \in 1..c.n |-> j], LAMBDA j : c.par[j] = i)

\* Boolean(value), the predicate of line 139
Boolean(value) == value.kind \in {"node", "array", "promise"}

\* the predicate of line 128
IsGiven(item) == item.kind # "undefined" /\ item.kind # "null"

AppendItemFirst(flat, iitem) == SelectSeq(<<iitem>> \o flat, Boolean)

AppendItemUnfiltered(flat, iitem) == flat \o <<iitem>>

\* line 139
AppendItem(flat, iitem) == SelectSeq(flat \o <<iitem>>, Boolean)

\* lines 141-144
AppendInner(flat, inner) == flat \o inner

\* the accumulator a call of recursiveFlattenArray for item i was given: the
\* promise of the call for the element before it, or Promise.resolve([])
FlatOf(c, i) == IF i > 1 /\ c.par[i - 1] = c.par[i] THEN i - 1 ELSE 0

\* a call can take its next step: what it awaits has resolved
CanStep(c, st, cs, i) ==
    \/ cs[i].pc = "awaitItem" /\ (c.async[i] => \E j \in 1..Len(st) : st[j] = i)
    \/ cs[i].pc = "awaitFlat" /\ (FlatOf(c, i) # 0 => cs[FlatOf(c, i)].pc = "done")
    \/ /\ cs[i].pc = "awaitInner"
       /\ LET es == Elements(c, i) IN es # <<>> => cs[es[Len(es)]].pc = "done"

\* the step of the call for item i, lines 137-144
StepCall(c, cs, i) ==
    LET flat == IF FlatOf(c, i) = 0 THEN <<>> ELSE cs[FlatOf(c, i)].value
        es   == Elements(c, i)
    IN  CASE cs[i].pc = "awaitItem" ->
                [cs EXCEPT ![i].pc = "awaitFlat"]
          [] cs[i].pc = "awaitFlat" /\ c.kind[i] # "array" ->
                [cs EXCEPT ![i] = [pc |-> "done",
                                   value |-> AppendItem(flat, Await(c, ItemOf(c, i)))]]
          [] cs[i].pc = "awaitFlat" /\ c.kind[i] = "array" ->
                [j \in 1..c.n |->
                    IF j = i THEN [pc |-> "awaitInner", value |-> flat]
                    ELSE IF c.par[j] = i THEN [pc |-> "awaitItem", value |-> <<>>]
                    ELSE cs[j]]
          [] cs[i].pc = "awaitInner" ->
                [cs EXCEPT ![i] = [pc |-> "done",
                                   value |-> AppendInner(cs[i].value,
                                        IF es = <<>> THEN <<>> ELSE cs[es[Len(es)]].value)]]

RECURSIVE Drain(_, _, _)
\* the continuations run until none is left that can
Drain(c, st, cs) ==
    IF \E i \in 1..c.n : CanStep(c, st, cs, i)
    THEN Drain(c, st, StepCall(c, cs, CHOOSE i \in 1..c.n : CanStep(c, st, cs, i)))
    ELSE cs

\* lines 127-130: the reduce over [children] without undefined and null
StartCalls(c) ==
    [j \in 1..c.n |->
        [pc |-> IF j = 1 /\ IsGiven(ItemOf(c, 1)) THEN "awaitItem" ELSE "idle", value |-> <<>>]]

\* what the await of line 127 gives, once the reduce's promise has resolved
Resolved(c, cs) ==
    IF ~IsGiven(ItemOf(c, 1)) THEN <<"resolved", <<>> >>
    ELSE IF cs[1].pc = "done" THEN <<"resolved", cs[1].value>>
    ELSE <<"pending">>

IsItems(n, par, kind) == \A i \in 2..n : kind[par[i]] = "array"

InitFlat ==
    /\ \E n \in 1..MaxItems : \E par \in Shapes(n) :
       \E kind \in [1..n -> ItemKinds] : \E async \in [1..n -> BOOLEAN] :
            /\ IsItems(n, par, kind)
            /\ children = [n |-> n, par |-> par, kind |-> kind, async |-> async]
    /\ settled = <<>>
    /\ calls = <<>>
    /\ out = <<"uncalled">>
    /\ mem = <<>> /\ orig = <<>> /\ first = <<>> /\ phase = "none"
    /\ component = <<>> /\ node = <<>> /\ decoded = <<>> /\ step = "none"
    /\ archive = <<>> /\ location = <<>> /\ written = <<>> /\ relationships = <<>>
    /\ warnings = 0 /\ result = <<>> /\ pc = "none"

\* ensureFlatResolvedArray(children) is called
Call ==
    /\ out = <<"uncalled">>
    /\ \E cs \in {Drain(children, settled, StartCalls(children))} :
        /\ calls' = cs
        /\ out' = Resolved(children, cs)
    /\ UNCHANGED <<children, settled, bumpVars, roundVars, settingsVars>>

\* a promise among the items resolves, and the continuations waiting for it
\* run.  (A promise that had resolved before the call hands its value over in
\* a continuation as well: it is the promise that resolves first after it.)
Settle(i) ==
    /\ out # <<"uncalled">>
    /\ children.async[i]
    /\ \A j \in 1..Len(settled) : settled[j] # i
    /\ settled' = Append(settled, i)
    /\ \E cs \in {Drain(children, settled', calls)} :
        /\ calls' = cs
        /\ out' = Resolved(children, cs)
    /\ UNCHANGED <<children, bumpVars, roundVars, settingsVars>>

NextFlat == Call \/ \E i \in 1..MaxItems : i <= children.n /\ Settle(i)

SpecFlat == InitFlat /\ [][NextFlat]_vars

(***************************************************************************)
(* What the claims about ensureFlatResolvedArray speak of                  *)
(***************************************************************************)
RECURSIVE DeclaredLeaves(_, _)
\* the awaited non-array values below item i, depth-first, left to right
DeclaredLeaves(c, i) ==
    IF c.kind[i] # "array" THEN <<[kind |-> c.kind[i], id |-> i]>>
    ELSE LET es == Elements(c, i)
             RECURSIVE Cat(_)
             Cat(j) == IF j > Len(es) THEN <<>> ELSE DeclaredLeaves(c, es[j]) \o Cat(j + 1)
         IN Cat(1)

PositionIn(seq, x) == CHOOSE j \in 1..Len(seq) : seq[j] = x

Count(seq, x) == Cardinality({j \in 1..Len(seq) : seq[j] = x})

\* C5: the values ensureFlatResolvedArray resolves to stand in declaration
\* order, whatever the order the promises resolved in
C5_DeclarationOrder ==
    out[1] = "resolved" =>
        LET decl == DeclaredLeaves(children, 1) IN
        /\ \A j \in 1..Len(out[2]) : Count(decl, out[2][j]) = 1
        /\ \A a \in 1..Len(out[2]), b \in 1..Len(out[2]) :
              a < b => PositionIn(decl, out[2][a]) < PositionIn(decl, out[2][b])

\* a result holding two promised values of which the later declared resolved first
C5_Witness ==
    /\ out[1] = "resolved"
    /\ \E a \in 1..Len(out[2]), b \in 1..Len(out[2]) :
          /\ a < b
          /\ children.async[out[2][a].id]
          /\ children.async[out[2][b].id]
          /\ PositionIn(settled, out[2][b].id) < PositionIn(settled, out[2][a].id)

\* C10 as stated: the result holds no array and no promise, holds every awaited
\* value other than undefined and null exactly once, and holds no undefined or null
C10_OnlyNullishDropped ==
    out[1] = "resolved" =>
        LET decl == DeclaredLeaves(children, 1) IN
        /\ \A j \in 1..Len(out[2]) : out[2][j].kind \notin {"array", "promise"}
        /\ \A j \in 1..Len(decl) :
              Count(out[2], decl[j]) = IF decl[j].kind \in {"undefined", "null"} THEN 0 ELSE 1
        /\ Len(out[2]) <= Len(decl)

\* C10 amended: the result holds no array and no promise, holds every awaited
\* value that is truthy exactly once, and holds no falsy value (undefined,
\* null, false)
C10_OnlyFalsyDropped ==
    out[1] = "resolved" =>
        LET decl == DeclaredLeaves(children, 1) IN
        /\ \A j \in 1..Len(out[2]) : out[2][j].kind \notin {"array", "promise"}
        /\ \A j \in 1..Len(decl) :
              Count(out[2], decl[j]) = IF decl[j].kind = "node" THEN 1 ELSE 0
        /\ Len(out[2]) <= Len(decl)

\* a result of nested arrays and a promise that kept a value and dropped a
\* falsy one that is neither undefined nor null
C10_Witness ==
    /\ out[1] = "resolved"
    /\ Len(out[2]) >= 1
    /\ \E i \in 2..children.n : children.kind[i] = "array"
    /\ \E i \in 2..children.n :
          /\ children.kind[i] = "false"
          /\ Count(out[2], [kind |-> children.kind[i], id |-> i]) = 0
    /\ settled # <<>>

(***************************************************************************)
(* Paragraph and TextAddition: toNode and fromNode.  An XML element is     *)
(* [name, attrs, children]; a component instance is [type, props,          *)
(* children].  Text and TextDeletion, the property codecs, the change      *)
(* information reader and the child dispatch are not part of the files     *)
(* modelled here; they follow the registry contract.                       *)
(***************************************************************************)
Element(name, attrs, kids) == [name |-> name, attrs |-> attrs, children |-> kids]

Instance(type, props, kids) == [type |-> type, props |-> props, children |-> kids]

\* Date.prototype.toISOString: the instant, in milliseconds, written as its
\* day, hour, minute, second and millisecond fields
toISOString(date) ==
    [day |-> date \div 86400000,
     hour |-> (date % 86400000) \div 3600000,
     minute |-> (date % 3600000) \div 60000,
     second |-> (date % 60000) \div 1000,
     milli |-> date % 1000]

\* the instant an ISO-8601 string denotes
parseDate(iso) ==
    iso.day * 86400000 + iso.hour * 3600000 + iso.minute * 60000 + iso.second * 1000 + iso.milli

\* paragraphPropertiesToNode: the w:pPr element of the props
paragraphPropertiesToNode(props) ==
    Element("w:pPr", <<>>, <<Element("w:pStyle", [val |-> props.style], <<>>)>>)

\* paragraphPropertiesFromNode, with the style Paragraph.fromNode reads itself
paragraphPropertiesFromNode(ppr) == [style |-> ppr.children[1].attrs.val]

\* getChangeInformation: id, author and date of a w:ins or w:del element
getChangeInformation(x) ==
    [id |-> x.attrs.id, author |-> x.attrs.author, date |-> parseDate(x.attrs.date)]

\* the matchesNode of each component
matchesNode(type, x) ==
    CASE type = "Paragraph"    -> x.name = "w:p"
      [] type = "TextAddition" -> x.name = "w:ins"
      [] type = "TextDeletion" -> x.name = "w:del"
      [] type = "Text"         -> x.name = "w:r"
      [] OTHER                 -> FALSE

\* the children of x whose name is one of names, in document order
ChildElements(x, names) == SelectSeq(x.children, LAMBDA e : e.name \in names)

RECURSIVE toNode(_)
\* Component.childrenToNode: the toNode of every child, in order
childrenToNode(c) == [j \in 1..Len(c.children) |-> toNode(c.children[j])]

\* Paragraph.toNode
ParagraphToNode(c) ==
    Element("w:p", <<>>, <<paragraphPropertiesToNode(c.props)>> \o childrenToNode(c))

\* TextAddition.toNode
TextAdditionToNode(c) ==
    Element("w:ins",
            [id |-> c.props.id, author |-> c.props.author, date |-> toISOString(c.props.date)],
            childrenToNode(c))

\* TextDeletion.toNode
TextDeletionToNode(c) ==
    Element("w:del",
            [id |-> c.props.id, author |-> c.props.author, date |-> toISOString(c.props.date)],
            childrenToNode(c))

\* Text.toNode
TextToNode(c) == Element("w:r", [rPr |-> c.props], <<>>)

toNode(c) ==
    CASE c.type = "Paragraph"    -> ParagraphToNode(c)
      [] c.type = "TextAddition" -> TextAdditionToNode(c)
      [] c.type = "TextDeletion" -> TextDeletionToNode(c)
      [] c.type = "Text"         -> TextToNode(c)

\* the XPath of Paragraph.fromNode for its children
ParagraphChildNodes(x) == ChildElements(x, {"w:r", "w:del", "w:ins"})

\* the XPath of TextAddition.fromNode for its children
TextAdditionChildNodes(x) == ChildElements(x, {"w:r"})

\* the children TextDeletion.fromNode reads
TextDeletionChildNodes(x) == ChildElements(x, {"w:r", "w:del", "w:ins"})

RECURSIVE fromNode(_, _)
\* createChildComponentsFromNodes: each node decoded by the first component
\* among names that matches it
createChildComponentsFromNodes(names, nodes) ==
    [j \in 1..Len(nodes) |->
        LET at == CHOOSE h \in 1..Len(names) :
                    /\ matchesNode(names[h], nodes[j])
                    /\ \A g \in 1..(h - 1) : ~matchesNode(names[g], nodes[j])
        IN fromNode(names[at], nodes[j])]

\* Paragraph.fromNode
ParagraphFromNode(x) ==
    Instance("Paragraph",
             paragraphPropertiesFromNode(ChildElements(x, {"w:pPr"})[1]),
             createChildComponentsFromNodes(Paragraph.children, ParagraphChildNodes(x)))

\* TextAddition.fromNode
TextAdditionFromNode(x) ==
    Instance("TextAddition",
             getChangeInformation(x),
             createChildComponentsFromNodes(TextAddition.children, TextAdditionChildNodes(x)))

\* TextDeletion.fromNode
TextDeletionFromNode(x) ==
    Instance("TextDeletion",
             getChangeInformation(x),
             createChildComponentsFromNodes(TextAddition.children, TextDeletionChildNodes(x)))

\* Text.fromNode
TextFromNode(x) == Instance("Text", x.attrs.rPr, <<>>)

fromNode(type, x) ==
    CASE type = "Paragraph"    -> ParagraphFromNode(x)
      [] type = "TextAddition" -> TextAdditionFromNode(x)
      [] type = "TextDeletion" -> TextDeletionFromNode(x)
      [] type = "Text"         -> TextFromNode(x)

(***************************************************************************)
(* The instances taken round: a Paragraph or a TextAddition with up to     *)
(* MaxChildren children, each a Text or a tracked change with up to        *)
(* MaxChildren Text children.                                              *)
(***************************************************************************)
ParagraphPropsSet == {[style |-> "Normal"], [style |-> "Title"]}

ChangeInformations ==
    {[id |-> 0, author |-> "A", date |-> 0], [id |-> 1, author |-> "B", date |-> 93784005]}

SeqsUpTo(S, n) == UNION {[1..m -> S] : m \in 0..n}

Texts == {Instance("Text", "plain", <<>>)}

Changes ==
    { Instance(t, p, k) : t \in {"TextAddition", "TextDeletion"}, p \in ChangeInformations,
                          k \in SeqsUpTo(Texts, MaxChildren) }

InitRound ==
    /\ \E k \in SeqsUpTo(Texts \cup Changes, MaxChildren) :
        \/ \E p \in ParagraphPropsSet : component = Instance("Paragraph", p, k)
        \/ \E p \in ChangeInformations : component = Instance("TextAddition", p, k)
    /\ node = <<>>
    /\ decoded = <<>>
    /\ step = "built"
    /\ mem = <<>> /\ orig = <<>> /\ first = <<>> /\ phase = "none"
    /\ children = <<>> /\ settled = <<>> /\ calls = <<>> /\ out = <<>>
    /\ archive = <<>> /\ location = <<>> /\ written = <<>> /\ relationships = <<>>
    /\ warnings = 0 /\ result = <<>> /\ pc = "none"

\* component.toNode(ancestry)
Encode ==
    /\ step = "built"
    /\ node' = toNode(component)
    /\ step' = "encoded"
    /\ UNCHANGED <<component, decoded, bumpVars, flatVars, settingsVars>>

\* Paragraph.fromNode(node) or TextAddition.fromNode(node)
Decode ==
    /\ step = "encoded"
    /\ decoded' = fromNode(component.type, node)
    /\ step' = "decoded"
    /\ UNCHANGED <<component, node, bumpVars, flatVars, settingsVars>>

NextRound == Encode \/ Decode

SpecRound == InitRound /\ [][NextRound]_vars

\* C6: the instance decoded from the encoded element has the type and the
\* props of the original and as many children, of the same types in the same
\* order
C6_RoundTrip ==
    step = "decoded" =>
        /\ decoded.type = component.type
        /\ decoded.props = component.props
        /\ Len(decoded.children) = Len(component.children)
        /\ \A j \in 1..Len(component.children) :
              decoded.children[j].type = component.children[j].type

(***************************************************************************)
(* Settings.  A location is a sequence of path segments; a segment is      *)
(* [name, rels], rels telling that ".rels" is appended to the name.  The   *)
(* archive maps the locations it holds to [kind |-> "xml", xml |-> e] or,  *)
(* for a file that cannot be read, [kind |-> "unreadable"].                *)
(***************************************************************************)
Segment(name) == [name |-> name, rels |-> FALSE]

\* path.dirname
dirname(loc) == IF Len(loc) = 1 THEN <<Segment(".")>> ELSE SubSeq(loc, 1, Len(loc) - 1)

\* path.basename
basename(loc) == loc[Len(loc)]

\* lines 29 and 65: `${path.dirname(location)}/_rels/${path.basename(location)}.rels`
RelationshipsLocation(loc) ==
    dirname(loc) \o <<Segment("_rels"), [name |-> basename(loc).name, rels |-> TRUE]>>

\* new Relationships(location)
NewRelationships(loc) == [location |-> loc, meta |-> <<>>]

\* Relationships.fromArchive: rejects when the file is absent or unreadable
RelationshipsFromArchive(arch, loc) ==
    IF loc \in DOMAIN arch /\ arch[loc].kind = "xml"
    THEN [ok |-> TRUE, value |-> [location |-> loc, meta |-> arch[loc].xml]]
    ELSE [ok |-> FALSE, value |-> <<>>]

\* archive.readXml: rejects when the part is absent
ReadXml(arch, loc) ==
    IF loc \in DOMAIN arch /\ arch[loc].kind = "xml"
    THEN [ok |-> TRUE, value |-> arch[loc].xml]
    ELSE [ok |-> FALSE, value |-> <<>>]

\* the w:val attributes of the children of e named name
AttributeValues(e, name) ==
    LET es == SelectSeq(e.children, LAMBDA c : c.name = name /\ "val" \in DOMAIN c.attrs)
    IN [j \in 1..Len(es) |-> es[j].attrs.val]

\* ooxml:is-on-off-enabled
IsOnOffEnabled(vals) == \E j \in 1..Len(vals) : vals[j] \in {"on", "true", "1"}

\* new Settings(location, relationships, settings), lines 26-36
NewSettings(loc, rels, settings) ==
    [location |-> loc, relationships |-> rels,
     isTrackChangesEnabled |-> settings.isTrackChangesEnabled]

\* line 15
DEFAULT_SETTINGS == [isTrackChangesEnabled |-> FALSE]

\* Settings.toNode, lines 38-53
SettingsToNode(self) ==
    Element("w:settings", <<>>,
            IF self.isTrackChangesEnabled
            THEN <<Element("w:trackRevisions", <<>>, <<>>)>>
            ELSE <<>>)

\* the XPath of lines 75-80
SettingsFromXml(doc) ==
    [isTrackChangesEnabled |-> IsOnOffEnabled(AttributeValues(doc, "w:trackChanges"))]

CatchRethrows(outcome) ==
    IF outcome.ok
    THEN [relationships |-> <<outcome.value>>, warned |-> 0, thrown |-> FALSE]
    ELSE [relationships |-> <<>>, warned |-> 1, thrown |-> TRUE]

\* the try / catch of lines 66-73: relationships stays undefined (the empty
\* sequence) and a warning is printed when Relationships.fromArchive rejects
TryRelationships(outcome) ==
    IF outcome.ok
    THEN [relationships |-> <<outcome.value>>, warned |-> 0, thrown |-> FALSE]
    ELSE [relationships |-> <<>>, warned |-> 1, thrown |-> FALSE]

\* line 83: relationships || new Relationships(relationshipsLocation)
RelationshipsOrNew(rels, loc) ==
    IF rels # <<>> THEN rels[1] ELSE NewRelationships(RelationshipsLocation(loc))

Locations ==
    { <<Segment("settings.xml")>>,
      <<Segment("word"), Segment("settings.xml")>> }

OnOffValues == {"on", "true", "1", "off", "false", "0"}

\* the settings parts an archive may hold that no toNode wrote
ForeignSettings ==
    { Element("w:settings", <<>>, revs \o chgs) :
        revs \in {<<>>, <<Element("w:trackRevisions", <<>>, <<>>)>>},
        chgs \in {<<>>, <<Element("w:trackChanges", <<>>, <<>>)>>}
                 \cup {<<Element("w:trackChanges", [val |-> v], <<>>)>> : v \in OnOffValues} }

\* the relationship files an archive may hold
RelationshipFiles ==
    { [kind |-> "unreadable"],
      [kind |-> "xml", xml |-> <<>>],
      [kind |-> "xml", xml |-> <<[id |-> "rId1", target |-> "fontTable.xml"]>>] }

File(loc, content) == [l \in {loc} |-> content]

InitSettings ==
    /\ location \in Locations
    /\ \E rels \in {<<>>} \cup {File(RelationshipsLocation(location), f) : f \in RelationshipFiles} :
       \E part \in {<<>>} \cup {File(location, [kind |-> "xml", xml |-> x]) : x \in ForeignSettings} :
            archive = rels @@ part
    /\ written = <<>>
    /\ relationships = <<>>
    /\ warnings = 0
    /\ result = <<>>
    /\ pc = "closed"
    /\ mem = <<>> /\ orig = <<>> /\ first = <<>> /\ phase = "none"
    /\ children = <<>> /\ settled = <<>> /\ calls = <<>> /\ out = <<>>
    /\ component = <<>> /\ node = <<>> /\ decoded = <<>> /\ step = "none"

\* a Settings for the location, with the default relationships, is serialized
\* with toNode into the archive
WriteSettings(enabled) ==
    /\ pc = "closed"
    /\ location \notin DOMAIN archive
    /\ written' = <<NewSettings(location, NewRelationships(RelationshipsLocation(location)),
                                [DEFAULT_SETTINGS EXCEPT !.isTrackChangesEnabled = enabled])>>
    /\ archive' = archive @@ File(location, [kind |-> "xml", xml |-> SettingsToNode(written'[1])])
    /\ UNCHANGED <<location, relationships, warnings, result, pc, bumpVars, flatVars, roundVars>>

\* Settings.fromArchive(archive, location) up to its first await, lines 62-73
FromArchiveRelationships ==
    /\ pc = "closed"
    /\ LET got == TryRelationships(RelationshipsFromArchive(archive, RelationshipsLocation(location)))
       IN /\ relationships' = got.relationships
          /\ warnings' = warnings + got.warned
          /\ pc' = IF got.thrown THEN "rejected" ELSE "readXml"
    /\ UNCHANGED <<archive, location, written, result, bumpVars, flatVars, roundVars>>

\* Settings.fromArchive from the await of readXml on, lines 75-85
FromArchiveSettings ==
    /\ pc = "readXml"
    /\ LET doc == ReadXml(archive, location) IN
        IF doc.ok
        THEN /\ result' = <<NewSettings(location, RelationshipsOrNew(relationships, location),
                                        SettingsFromXml(doc.value))>>
             /\ pc' = "resolved"
        ELSE /\ result' = result
             /\ pc' = "rejected"
    /\ UNCHANGED <<archive, location, written, relationships, warnings, bumpVars, flatVars, roundVars>>

NextSettings ==
    \/ \E enabled \in BOOLEAN : WriteSettings(enabled)
    \/ FromArchiveRelationships
    \/ FromArchiveSettings

SpecSettings == InitSettings /\ [][NextSettings]_vars

(***************************************************************************)
(* What the claims about Settings speak of                                 *)
(***************************************************************************)
\* the companion resource of the settings part cannot be read
CompanionMissing ==
    \/ RelationshipsLocation(location) \notin DOMAIN archive
    \/ archive[RelationshipsLocation(location)].kind = "unreadable"

\* the part holds a w:trackChanges element whose w:val is on, true or 1
PartSaysTrackChanges ==
    \E j \in 1..Len(archive[location].xml.children) :
        LET e == archive[location].xml.children[j] IN
        /\ e.name = "w:trackChanges"
        /\ "val" \in DOMAIN e.attrs
        /\ e.attrs.val \in {"on", "true", "1"}

\* C7: when the companion .rels resource cannot be read, fromArchive prints a
\* warning and goes on; it rejects only if the settings part itself cannot be
\* read, and otherwise resolves to a Settings for the location with new, empty
\* relationships pc the companion location and the flag read from the part
C7_MissingRelationshipsDegrade ==
    (CompanionMissing /\ pc \in {"readXml", "resolved", "rejected"}) =>
        /\ warnings = 1
        /\ pc = "rejected" => location \notin DOMAIN archive
        /\ pc = "resolved" =>
              /\ result[1].location = location
              /\ result[1].relationships.meta = <<>>
              /\ result[1].relationships.location
                    = dirname(location) \o <<Segment("_rels"),
                                             [name |-> location[Len(location)].name, rels |-> TRUE]>>
              /\ result[1].isTrackChangesEnabled = PartSaysTrackChanges

\* fromArchive resolved, with track changes read as enabled, from an archive
\* whose companion resource is unreadable
C7_Witness ==
    /\ pc = "resolved"
    /\ RelationshipsLocation(location) \in DOMAIN archive
    /\ archive[RelationshipsLocation(location)].kind = "unreadable"
    /\ result[1].isTrackChangesEnabled
    /\ warnings = 1

\* C9: a Settings part written by toNode is read back by fromArchive with the
\* isTrackChangesEnabled it was written with
C9_SettingsRoundTrip ==
    (pc = "resolved" /\ written # <<>>) =>
        result[1].isTrackChangesEnabled = written[1].isTrackChangesEnabled

====
